---- MODULE Spec2Model ----
(***************************************************************************)
(* PixarLamp (main.cpp): the keyboard-driven state of the articulated      *)
(* lamp.  The program state is the five joint angles (lampJoints), the     *)
(* selected joint, the spotlight flag, whether the process is still        *)
(* running (ESC calls exit) and GLUT's pending-redisplay flag; gl is the    *)
(* OpenGL server state the program drives, frame the display() call in     *)
(* progress, call / emitted a single call of a drawing primitive or of     *)
(* reshape() and the GL commands it has issued.                            *)
(* Angles are C floats; every value the handlers can produce within the    *)
(* bounds explored here is an integer of magnitude far below 2^24, so it   *)
(* is represented exactly.  Float32 states the rounding of a float store.  *)
(* Three specifications: Spec (the callbacks, each run to completion),     *)
(* SpecCalls (one call of a drawing primitive or of reshape() on arguments *)
(* from small ranges) and SpecFrame (display() one GL command at a time).  *)
(* Transforms are kept as the lists of operations multiplied together.     *)
(***************************************************************************)
EXTENDS Integers, Sequences, FiniteSets, TLC

\* ------------------------------------------------------------------ bounds
\* Largest |baseRotation| / |lampshadeRotation| the explored runs reach.
MaxRot == 366
\* Largest total offset (degrees) from the startup pose of all joint fields
\* but the most displaced one.
MaxSecondary == 2
\* Largest number of UP presses allowed for an angle to settle on its limit.
MaxPresses == 40
\* Largest number of consecutive LEFT / RIGHT presses examined from a state.
MaxRun == 4
\* Largest number of UP or DOWN presses allowed for any clamped angle to
\* settle on a limit (the upper arm's range is 210 degrees wide).
MaxSettle == 70
\* Largest slices / stacks argument of a drawing primitive called on its own.
MaxSlices == 4
MaxStacks == 3
\* Largest radius, height or size argument of such a call.
MaxLen == 2
\* Largest window width / height handed to reshape().
MaxDim == 3
\* Largest number of arrow presses between the startup pose and a pose that
\* is rendered command by command.
MaxFrameSteps == 2

\* ------------------------------------------------- enum JointSelection
BASE == 0
LOWER_ARM == 1
UPPER_ARM == 2
LAMPSHADE == 3
JointSelection == {BASE, LOWER_ARM, UPPER_ARM, LAMPSHADE}

\* -------------------------------------------------------------- key codes
\* ASCII keys handled by keyboard(); "x" stands for any key without a case.
ESC == "ESC"
AsciiKeys == {"1", "2", "3", "4", "f", "F", "r", "R", ESC, "x"}
GLUT_KEY_LEFT == "LEFT"
GLUT_KEY_RIGHT == "RIGHT"
GLUT_KEY_UP == "UP"
GLUT_KEY_DOWN == "DOWN"
\* Special keys delivered to specialKeys(); "F1" stands for any other one.
SpecialKeyCodes == {GLUT_KEY_LEFT, GLUT_KEY_RIGHT, GLUT_KEY_UP, GLUT_KEY_DOWN, "F1"}

\* ------------------------------------------------------- float arithmetic
TwoPow24 == 16777216

Abs(x) == IF x < 0 THEN -x ELSE x

RECURSIVE Ulp(_)
\* Spacing of IEEE-754 single precision values around the integer x.
Ulp(x) == IF Abs(x) < TwoPow24 THEN 1 ELSE 2 * Ulp(x \div 2)

\* The float nearest to the integer x (round to nearest, ties to even).
Float32(x) ==
    LET u == Ulp(x)
        q == x \div u
        r == x % u
    IN  IF r = 0 THEN x
        ELSE IF 2 * r < u THEN q * u
        ELSE IF 2 * r > u THEN (q + 1) * u
        ELSE IF q % 2 = 0 THEN q * u ELSE (q + 1) * u

\* A plausible slip: the clamp left out.
fminNoClamp(a, b) == a

fmin(a, b) == IF a < b THEN a ELSE b

\* A plausible slip: the lower clamp left out.
fmaxNoClamp(a, b) == a

fmax(a, b) == IF a > b THEN a ELSE b

\* ---------------------------------------------------------------- globals
InitLampJoints ==
    [baseRotation |-> 0, lowerArmAngle |-> 30, upperArmAngle |-> -60,
     lampshadeAngle |-> -90, lampshadeRotation |-> 0]

JointFields == DOMAIN InitLampJoints

VARIABLES lampJoints, selectedJoint, spotlightEnabled, running, redisplayPending,
          gl, frame, call, emitted

vars == <<lampJoints, selectedJoint, spotlightEnabled, running, redisplayPending,
          gl, frame, call, emitted>>

\* The three globals the handlers read and write, as one value.
State == [lampJoints |-> lampJoints, selectedJoint |-> selectedJoint,
          spotlightEnabled |-> spotlightEnabled]

\* ------------------------------------------------------------- keyboard()
\* A plausible slip: the reset values of the README listing.
ResetJointsReadme ==
    [baseRotation |-> 0, lowerArmAngle |-> 45, upperArmAngle |-> -60,
     lampshadeAngle |-> -30, lampshadeRotation |-> 0]

\* case 'r' / 'R': the five assignments.
ResetJoints ==
    [baseRotation |-> 0, lowerArmAngle |-> 30, upperArmAngle |-> -60,
     lampshadeAngle |-> -90, lampshadeRotation |-> 0]

\* A plausible slip: case '3' selects the lower arm.
keyboardWrongSelect(key, s) ==
    CASE key = "1" -> [s EXCEPT !.selectedJoint = BASE]
      [] key = "2" -> [s EXCEPT !.selectedJoint = LOWER_ARM]
      [] key = "3" -> [s EXCEPT !.selectedJoint = LOWER_ARM]
      [] key = "4" -> [s EXCEPT !.selectedJoint = LAMPSHADE]
      [] key \in {"f", "F"} -> [s EXCEPT !.spotlightEnabled = ~s.spotlightEnabled]
      [] key \in {"r", "R"} -> [s EXCEPT !.lampJoints = ResetJoints]
      [] OTHER -> s

\* A plausible slip: reset also puts the selection back to the base.
keyboardResetSelects(key, s) ==
    CASE key = "1" -> [s EXCEPT !.selectedJoint = BASE]
      [] key = "2" -> [s EXCEPT !.selectedJoint = LOWER_ARM]
      [] key = "3" -> [s EXCEPT !.selectedJoint = UPPER_ARM]
      [] key = "4" -> [s EXCEPT !.selectedJoint = LAMPSHADE]
      [] key \in {"f", "F"} -> [s EXCEPT !.spotlightEnabled = ~s.spotlightEnabled]
      [] key \in {"r", "R"} -> [s EXCEPT !.lampJoints = ResetJoints,
                                         !.selectedJoint = BASE]
      [] OTHER -> s

\* A plausible slip: case 'r' without its break, above case 'f'.
keyboardResetFallsThrough(key, s) ==
    CASE key = "1" -> [s EXCEPT !.selectedJoint = BASE]
      [] key = "2" -> [s EXCEPT !.selectedJoint = LOWER_ARM]
      [] key = "3" -> [s EXCEPT !.selectedJoint = UPPER_ARM]
      [] key = "4" -> [s EXCEPT !.selectedJoint = LAMPSHADE]
      [] key \in {"f", "F"} -> [s EXCEPT !.spotlightEnabled = ~s.spotlightEnabled]
      [] key \in {"r", "R"} -> [s EXCEPT !.lampJoints = ResetJoints,
                                         !.spotlightEnabled = ~s.spotlightEnabled]
      [] OTHER -> s

\* A plausible slip: case 'f' without its break, running on into case 'r'.
keyboardToggleFallsThrough(key, s) ==
    CASE key = "1" -> [s EXCEPT !.selectedJoint = BASE]
      [] key = "2" -> [s EXCEPT !.selectedJoint = LOWER_ARM]
      [] key = "3" -> [s EXCEPT !.selectedJoint = UPPER_ARM]
      [] key = "4" -> [s EXCEPT !.selectedJoint = LAMPSHADE]
      [] key \in {"f", "F"} -> [s EXCEPT !.spotlightEnabled = ~s.spotlightEnabled,
                                         !.lampJoints = ResetJoints]
      [] key \in {"r", "R"} -> [s EXCEPT !.lampJoints = ResetJoints]
      [] OTHER -> s

\* The state keyboard(key) leaves behind, for every key but ESC.
keyboard(key, s) ==
    CASE key = "1" -> [s EXCEPT !.selectedJoint = BASE]
      [] key = "2" -> [s EXCEPT !.selectedJoint = LOWER_ARM]
      [] key = "3" -> [s EXCEPT !.selectedJoint = UPPER_ARM]
      [] key = "4" -> [s EXCEPT !.selectedJoint = LAMPSHADE]
      [] key \in {"f", "F"} -> [s EXCEPT !.spotlightEnabled = ~s.spotlightEnabled]
      [] key \in {"r", "R"} -> [s EXCEPT !.lampJoints = ResetJoints]
      [] OTHER -> s

\* ---------------------------------------------------------- specialKeys()
\* A plausible slip: a doubled step.
rotationStepDoubled == 2 * 3

rotationStep == 3

\* A plausible slip: the lower arm's upper limit one step too far.
LOWER_ARM_MAX_TooFar == 90 + 3

LOWER_ARM_MAX == 90
UPPER_ARM_MAX == 90
LAMPSHADE_MAX == 45
LOWER_ARM_MIN == -10
UPPER_ARM_MIN == -120
LAMPSHADE_MIN == -90

\* A plausible slip: the base rotation wrapped into (-360, 360).
caseKeyLeftWrapped(s) ==
    LET j == s.lampJoints
        sel == s.selectedJoint
    IN  IF sel = BASE
        THEN [s EXCEPT !.lampJoints.baseRotation =
                 IF j.baseRotation - rotationStep <= -360
                 THEN j.baseRotation - rotationStep + 360
                 ELSE j.baseRotation - rotationStep]
        ELSE IF sel = LAMPSHADE
        THEN [s EXCEPT !.lampJoints.lampshadeRotation = Float32(j.lampshadeRotation - rotationStep)]
        ELSE s

\* case GLUT_KEY_LEFT
caseKeyLeft(s) ==
    LET j == s.lampJoints
        sel == s.selectedJoint
    IN  IF sel = BASE
        THEN [s EXCEPT !.lampJoints.baseRotation = Float32(j.baseRotation - rotationStep)]
        ELSE IF sel = LAMPSHADE
        THEN [s EXCEPT !.lampJoints.lampshadeRotation = Float32(j.lampshadeRotation - rotationStep)]
        ELSE s

\* A plausible slip: RIGHT falls through to the base whatever is selected.
caseKeyRightAlwaysBase(s) ==
    LET j == s.lampJoints
        sel == s.selectedJoint
    IN  IF sel = LAMPSHADE
        THEN [s EXCEPT !.lampJoints.lampshadeRotation = Float32(j.lampshadeRotation + rotationStep)]
        ELSE [s EXCEPT !.lampJoints.baseRotation = Float32(j.baseRotation + rotationStep)]

\* case GLUT_KEY_RIGHT
caseKeyRight(s) ==
    LET j == s.lampJoints
        sel == s.selectedJoint
    IN  IF sel = BASE
        THEN [s EXCEPT !.lampJoints.baseRotation = Float32(j.baseRotation + rotationStep)]
        ELSE IF sel = LAMPSHADE
        THEN [s EXCEPT !.lampJoints.lampshadeRotation = Float32(j.lampshadeRotation + rotationStep)]
        ELSE s

\* case GLUT_KEY_UP
\* A plausible slip: the clamp applied to the old angle, the step added after.
caseKeyUpClampFirst(s) ==
    LET j == s.lampJoints
        sel == s.selectedJoint
    IN  IF sel = LOWER_ARM
        THEN [s EXCEPT !.lampJoints.lowerArmAngle =
                 Float32(fmin(j.lowerArmAngle, LOWER_ARM_MAX) + rotationStep)]
        ELSE IF sel = UPPER_ARM
        THEN [s EXCEPT !.lampJoints.upperArmAngle =
                 Float32(fmin(j.upperArmAngle, UPPER_ARM_MAX) + rotationStep)]
        ELSE IF sel = LAMPSHADE
        THEN [s EXCEPT !.lampJoints.lampshadeAngle =
                 Float32(fmin(j.lampshadeAngle, LAMPSHADE_MAX) + rotationStep)]
        ELSE s

caseKeyUp(s) ==
    LET j == s.lampJoints
        sel == s.selectedJoint
    IN  IF sel = LOWER_ARM
        THEN [s EXCEPT !.lampJoints.lowerArmAngle =
                 fmin(Float32(j.lowerArmAngle + rotationStep), LOWER_ARM_MAX)]
        ELSE IF sel = UPPER_ARM
        THEN [s EXCEPT !.lampJoints.upperArmAngle =
                 fmin(Float32(j.upperArmAngle + rotationStep), UPPER_ARM_MAX)]
        ELSE IF sel = LAMPSHADE
        THEN [s EXCEPT !.lampJoints.lampshadeAngle =
                 fmin(Float32(j.lampshadeAngle + rotationStep), LAMPSHADE_MAX)]
        ELSE s

\* A plausible slip: the lower-arm branch pasted from the upper-arm one.
caseKeyDownPasted(s) ==
    LET j == s.lampJoints
        sel == s.selectedJoint
    IN  IF sel = LOWER_ARM
        THEN [s EXCEPT !.lampJoints.upperArmAngle =
                 fmax(Float32(j.upperArmAngle - rotationStep), UPPER_ARM_MIN)]
        ELSE IF sel = UPPER_ARM
        THEN [s EXCEPT !.lampJoints.upperArmAngle =
                 fmax(Float32(j.upperArmAngle - rotationStep), UPPER_ARM_MIN)]
        ELSE IF sel = LAMPSHADE
        THEN [s EXCEPT !.lampJoints.lampshadeAngle =
                 fmax(Float32(j.lampshadeAngle - rotationStep), LAMPSHADE_MIN)]
        ELSE s

\* case GLUT_KEY_DOWN
caseKeyDown(s) ==
    LET j == s.lampJoints
        sel == s.selectedJoint
    IN  IF sel = LOWER_ARM
        THEN [s EXCEPT !.lampJoints.lowerArmAngle =
                 fmax(Float32(j.lowerArmAngle - rotationStep), LOWER_ARM_MIN)]
        ELSE IF sel = UPPER_ARM
        THEN [s EXCEPT !.lampJoints.upperArmAngle =
                 fmax(Float32(j.upperArmAngle - rotationStep), UPPER_ARM_MIN)]
        ELSE IF sel = LAMPSHADE
        THEN [s EXCEPT !.lampJoints.lampshadeAngle =
                 fmax(Float32(j.lampshadeAngle - rotationStep), LAMPSHADE_MIN)]
        ELSE s

\* The state specialKeys(key) leaves behind.
specialKeys(key, s) ==
    CASE key = GLUT_KEY_LEFT -> caseKeyLeft(s)
      [] key = GLUT_KEY_RIGHT -> caseKeyRight(s)
      [] key = GLUT_KEY_UP -> caseKeyUp(s)
      [] key = GLUT_KEY_DOWN -> caseKeyDown(s)
      [] OTHER -> s

RECURSIVE Press(_, _, _)
\* The state after n consecutive specialKeys(key) calls.
Press(key, s, n) == IF n = 0 THEN s ELSE Press(key, specialKeys(key, s), n - 1)

RECURSIVE Settle(_, _, _)
\* Press key until a press changes nothing, at most n times.
Settle(key, s, n) ==
    LET t == specialKeys(key, s)
    IN  IF n = 0 \/ t = s THEN s ELSE Settle(key, t, n - 1)

\* ------------------------------------------------------- GL command stream
\* One GL (or GLU / GLUT) command with its arguments.
Op(name, args) == [op |-> name, a |-> args]

RECURSIVE Loop(_, _, _)
\* for (int i = lo; i <= hi; i++) body[i]: the commands issued, in order.
Loop(lo, hi, body) ==
    IF lo > hi THEN <<>> ELSE body[lo] \o Loop(lo + 1, hi, body)

\* What a float division by zero leaves behind (NaN or an infinity; no trap).
NaN == [nan |-> TRUE]

RECURSIVE Gcd(_, _)
Gcd(a, b) == IF b = 0 THEN a ELSE Gcd(b, a % b)

\* The float quotient a / b of two ints: NaN for a zero divisor, otherwise
\* the fraction in lowest terms.
FloatDiv(a, b) ==
    IF b = 0 THEN NaN
    ELSE LET g == Gcd(Abs(a), Abs(b))
         IN  [num |-> a \div g, den |-> b \div g]

\* theta = 2 * M_PI * i / n and theta = M_PI * i / n, as fractions of pi.
TwoPiTimes(i, n) == FloatDiv(2 * i, n)
PiTimes(i, n) == FloatDiv(i, n)

\* ------------------------------------------------------ drawing primitives
\* Vertices and normals are kept in the coordinates the code computes them
\* from: <<radius, theta, z>> around the Z axis, <<radius, phi, theta>> on
\* a sphere.
drawDisk(innerRadius, outerRadius, slices) ==
    <<Op("glBegin", <<"GL_TRIANGLE_STRIP">>)>>
    \o Loop(0, slices, [i \in 0 .. slices |->
         <<Op("glNormal3f", <<0, 0, 1>>),
           Op("glVertex3f", <<innerRadius, TwoPiTimes(i, slices), 0>>),
           Op("glVertex3f", <<outerRadius, TwoPiTimes(i, slices), 0>>)>>])
    \o <<Op("glEnd", <<>>)>>

\* A plausible slip: the loop stops one short and leaves the strip open.
drawCylinderOpen(radius, height, slices) ==
    <<Op("glBegin", <<"GL_QUAD_STRIP">>)>>
    \o Loop(0, slices - 1, [i \in 0 .. slices - 1 |->
         <<Op("glNormal3f", <<1, TwoPiTimes(i, slices), 0>>),
           Op("glVertex3f", <<radius, TwoPiTimes(i, slices), 0>>),
           Op("glVertex3f", <<radius, TwoPiTimes(i, slices), height>>)>>])
    \o <<Op("glEnd", <<>>)>>

drawCylinder(radius, height, slices) ==
    <<Op("glBegin", <<"GL_QUAD_STRIP">>)>>
    \o Loop(0, slices, [i \in 0 .. slices |->
         <<Op("glNormal3f", <<1, TwoPiTimes(i, slices), 0>>),
           Op("glVertex3f", <<radius, TwoPiTimes(i, slices), 0>>),
           Op("glVertex3f", <<radius, TwoPiTimes(i, slices), height>>)>>])
    \o <<Op("glEnd", <<>>)>>

\* x / sqrt(lenSquared): NaN when the square root is zero.
OverSqrt(x, lenSquared) ==
    IF lenSquared = 0 THEN NaN ELSE [num |-> x, sqrtOf |-> lenSquared]

drawCone(baseRadius, topRadius, height, slices) ==
    LET radiusDiff == baseRadius - topRadius
        lenSquared == radiusDiff * radiusDiff + height * height
        normalZ == OverSqrt(radiusDiff, lenSquared)
        normalXY == OverSqrt(height, lenSquared)
    IN  <<Op("glBegin", <<"GL_QUAD_STRIP">>)>>
        \o Loop(0, slices, [i \in 0 .. slices |->
             <<Op("glNormal3f", <<normalXY, TwoPiTimes(i, slices), normalZ>>),
               Op("glVertex3f", <<baseRadius, TwoPiTimes(i, slices), 0>>),
               Op("glVertex3f", <<topRadius, TwoPiTimes(i, slices), height>>)>>])
        \o <<Op("glEnd", <<>>)>>

\* A plausible slip: one normal for the two vertices of a pair, as in the
\* cylinder.
drawSphereSharedNormal(radius, slices, stacks) ==
    Loop(0, stacks - 1, [i \in 0 .. stacks - 1 |->
        <<Op("glBegin", <<"GL_QUAD_STRIP">>)>>
        \o Loop(0, slices, [j \in 0 .. slices |->
             <<Op("glNormal3f", <<1, TwoPiTimes(j, slices), PiTimes(i, stacks)>>),
               Op("glVertex3f", <<radius, TwoPiTimes(j, slices), PiTimes(i, stacks)>>),
               Op("glVertex3f", <<radius, TwoPiTimes(j, slices), PiTimes(i + 1, stacks)>>)>>])
        \o <<Op("glEnd", <<>>)>>])

drawSphere(radius, slices, stacks) ==
    Loop(0, stacks - 1, [i \in 0 .. stacks - 1 |->
        <<Op("glBegin", <<"GL_QUAD_STRIP">>)>>
        \o Loop(0, slices, [j \in 0 .. slices |->
             <<Op("glNormal3f", <<1, TwoPiTimes(j, slices), PiTimes(i, stacks)>>),
               Op("glVertex3f", <<radius, TwoPiTimes(j, slices), PiTimes(i, stacks)>>),
               Op("glNormal3f", <<1, TwoPiTimes(j, slices), PiTimes(i + 1, stacks)>>),
               Op("glVertex3f", <<radius, TwoPiTimes(j, slices), PiTimes(i + 1, stacks)>>)>>])
        \o <<Op("glEnd", <<>>)>>])

\* float vertices[8][3], indexed 0..7 as in the code; half = size / 2.
cubeVertices(size) ==
    LET half == FloatDiv(size, 2)
        minusHalf == FloatDiv(-size, 2)
    IN  [k \in 0 .. 7 |->
           CASE k = 0 -> <<minusHalf, minusHalf, half>>
             [] k = 1 -> <<half, minusHalf, half>>
             [] k = 2 -> <<half, half, half>>
             [] k = 3 -> <<minusHalf, half, half>>
             [] k = 4 -> <<minusHalf, minusHalf, minusHalf>>
             [] k = 5 -> <<half, minusHalf, minusHalf>>
             [] k = 6 -> <<half, half, minusHalf>>
             [] k = 7 -> <<minusHalf, half, minusHalf>>]

\* A plausible slip: the last connecting edge starts at the wrong corner.
cubeEdgeOrderSlip ==
    <<0, 1, 1, 2, 2, 3, 3, 0,
      4, 5, 5, 6, 6, 7, 7, 4,
      0, 4, 1, 5, 2, 6, 2, 7>>

\* The 24 indices into vertices[], in the order of the glVertex3fv calls.
cubeEdgeOrder ==
    <<0, 1, 1, 2, 2, 3, 3, 0,
      4, 5, 5, 6, 6, 7, 7, 4,
      0, 4, 1, 5, 2, 6, 3, 7>>

drawWireCube(size) ==
    LET vertices == cubeVertices(size)
    IN  <<Op("glBegin", <<"GL_LINES">>)>>
        \o [k \in 1 .. Len(cubeEdgeOrder) |->
              Op("glVertex3fv", vertices[cubeEdgeOrder[k]])]
        \o <<Op("glEnd", <<>>)>>

\* A plausible slip: the latitude loop stops one short of the south pole.
drawWireSphereShort(radius, slices, stacks) ==
    Loop(0, stacks - 1, [i \in 0 .. stacks - 1 |->
        <<Op("glBegin", <<"GL_LINE_LOOP">>)>>
        \o Loop(0, slices - 1, [j \in 0 .. slices - 1 |->
             <<Op("glVertex3f", <<radius, TwoPiTimes(j, slices), PiTimes(i, stacks)>>)>>])
        \o <<Op("glEnd", <<>>)>>])
    \o Loop(0, slices - 1, [j \in 0 .. slices - 1 |->
        <<Op("glBegin", <<"GL_LINE_STRIP">>)>>
        \o Loop(0, stacks, [i \in 0 .. stacks |->
             <<Op("glVertex3f", <<radius, TwoPiTimes(j, slices), PiTimes(i, stacks)>>)>>])
        \o <<Op("glEnd", <<>>)>>])

drawWireSphere(radius, slices, stacks) ==
    Loop(0, stacks, [i \in 0 .. stacks |->
        <<Op("glBegin", <<"GL_LINE_LOOP">>)>>
        \o Loop(0, slices - 1, [j \in 0 .. slices - 1 |->
             <<Op("glVertex3f", <<radius, TwoPiTimes(j, slices), PiTimes(i, stacks)>>)>>])
        \o <<Op("glEnd", <<>>)>>])
    \o Loop(0, slices - 1, [j \in 0 .. slices - 1 |->
        <<Op("glBegin", <<"GL_LINE_STRIP">>)>>
        \o Loop(0, stacks, [i \in 0 .. stacks |->
             <<Op("glVertex3f", <<radius, TwoPiTimes(j, slices), PiTimes(i, stacks)>>)>>])
        \o <<Op("glEnd", <<>>)>>])

\* ---------------------------------------------------------------- reshape()
\* A plausible slip: the guard on a zero height left out.
reshapeNoGuard(width, height) ==
    LET aspect == FloatDiv(width, height)
    IN  <<Op("glViewport", <<0, 0, width, height>>),
          Op("glMatrixMode", <<"GL_PROJECTION">>),
          Op("glLoadIdentity", <<>>),
          Op("gluPerspective", <<45, aspect, FloatDiv(1, 10), 100>>),
          Op("glMatrixMode", <<"GL_MODELVIEW">>)>>

\* The commands reshape(width, height) issues.
reshape(width, height) ==
    LET h == IF height = 0 THEN 1 ELSE height
        aspect == FloatDiv(width, h)
    IN  <<Op("glViewport", <<0, 0, width, h>>),
          Op("glMatrixMode", <<"GL_PROJECTION">>),
          Op("glLoadIdentity", <<>>),
          Op("gluPerspective", <<45, aspect, FloatDiv(1, 10), 100>>),
          Op("glMatrixMode", <<"GL_MODELVIEW">>)>>

\* ------------------------------------------------------ the GL state machine
\* The matrix stack glMatrixMode has selected; the current matrix is its top.
CurrentStack(g) ==
    IF g.matrixMode = "GL_PROJECTION" THEN g.projection ELSE g.modelview

WithStack(g, stack) ==
    IF g.matrixMode = "GL_PROJECTION"
    THEN [g EXCEPT !.projection = stack]
    ELSE [g EXCEPT !.modelview = stack]

CurrentMatrix(g) == CurrentStack(g)[Len(CurrentStack(g))]

WithMatrix(g, m) ==
    WithStack(g, [CurrentStack(g) EXCEPT ![Len(CurrentStack(g))] = m])

\* The commands that multiply a matrix onto the current one.
MultOps == {"glRotatef", "glTranslatef", "gluLookAt", "gluPerspective", "gluOrtho2D"}

\* glEnable / glDisable of a capability the machine tracks.
SetCap(g, cap, on) ==
    CASE cap = "GL_LIGHTING" -> [g EXCEPT !.lighting = on]
      [] cap = "GL_LIGHT1" -> [g EXCEPT !.light1 = on]
      [] OTHER -> g

\* The GL state after one command.  Commands that only feed the pipeline
\* (glBegin, glVertex3f, glNormal3f, glEnd, materials, colours, text) leave
\* the tracked state alone.
Exec(c, g) ==
    CASE c.op = "glViewport" -> [g EXCEPT !.viewport = c.a]
      [] c.op = "glMatrixMode" -> [g EXCEPT !.matrixMode = c.a[1]]
      [] c.op = "glLoadIdentity" -> WithMatrix(g, <<>>)
      [] c.op \in MultOps -> WithMatrix(g, Append(CurrentMatrix(g), Op(c.op, c.a)))
      [] c.op = "glPushMatrix" -> WithStack(g, Append(CurrentStack(g), CurrentMatrix(g)))
      [] c.op = "glPopMatrix" ->
           IF Len(CurrentStack(g)) > 1
           THEN WithStack(g, SubSeq(CurrentStack(g), 1, Len(CurrentStack(g)) - 1))
           ELSE g
      [] c.op = "glEnable" -> SetCap(g, c.a[1], TRUE)
      [] c.op = "glDisable" -> SetCap(g, c.a[1], FALSE)
      [] OTHER -> g

RECURSIVE Run(_, _)
Run(cs, g) == IF cs = <<>> THEN g ELSE Run(Tail(cs), Exec(Head(cs), g))

\* ------------------------------------------------- the commands of a frame
\* Lengths are in thousandths of a unit, angles in degrees.
WINDOW_WIDTH == 1024
WINDOW_HEIGHT == 768
cameraAngleX == 20
cameraAngleY == 30
cameraDistance == 15
BASE_RADIUS == 1000
BASE_HEIGHT == 300
ARM_RADIUS == 150
LOWER_ARM_LENGTH == 3000
UPPER_ARM_LENGTH == 2500
LAMPSHADE_RADIUS == 800
LAMPSHADE_HEIGHT == 1200

\* The camera of gluLookAt: the eye in spherical coordinates, the point looked
\* at, the up vector; and the matrix that holds nothing but the camera.
gluLookAtArgs == <<cameraDistance, cameraAngleX, cameraAngleY, 0, 3000, 0, 0, 1, 0>>
cameraMatrix == <<Op("gluLookAt", gluLookAtArgs)>>

\* A command of display() or of a routine it calls, with its source line.
At(line, name, args) == [op |-> name, a |-> args, line |-> line]

Rx(line, angle) == At(line, "glRotatef", <<angle, 1, 0, 0>>)
Ry(line, angle) == At(line, "glRotatef", <<angle, 0, 1, 0>>)
T(line, x, y, z) == At(line, "glTranslatef", <<x, y, z>>)

\* The three glMaterialfv calls that open a drawing routine.
materials(line) ==
    <<At(line, "glMaterialfv", <<"GL_FRONT", "GL_AMBIENT_AND_DIFFUSE">>),
      At(line + 1, "glMaterialfv", <<"GL_FRONT", "GL_SPECULAR">>),
      At(line + 2, "glMaterialfv", <<"GL_FRONT", "GL_SHININESS">>)>>

\* A plausible slip: the camera transform is left on the matrix the pose is
\* composed on.
setupLightingOnCamera(s) ==
    <<At(123, "glLightfv", <<"GL_LIGHT0", "GL_AMBIENT", "ambientLight">>),
      At(124, "glLightfv", <<"GL_LIGHT0", "GL_DIFFUSE", "diffuseLight">>),
      At(125, "glLightfv", <<"GL_LIGHT0", "GL_POSITION", "lightPos0">>)>>
    \o IF s.spotlightEnabled
       THEN <<At(132, "glEnable", <<"GL_LIGHT1">>),
              At(135, "glPushMatrix", <<>>),
              Ry(140, s.lampJoints.baseRotation),
              T(141, 0, BASE_HEIGHT, 0),
              Rx(142, s.lampJoints.lowerArmAngle),
              T(143, 0, LOWER_ARM_LENGTH, 0),
              Rx(144, s.lampJoints.upperArmAngle),
              T(145, 0, UPPER_ARM_LENGTH, 0),
              Rx(146, s.lampJoints.lampshadeAngle),
              Ry(147, s.lampJoints.lampshadeRotation),
              T(148, 0, (ARM_RADIUS * 15) \div 10, 0),
              Rx(152, -90),
              T(156, 0, 0, (LAMPSHADE_HEIGHT * 6) \div 10),
              At(160, "glGetFloatv", <<"GL_MODELVIEW_MATRIX">>),
              At(169, "glPopMatrix", <<>>),
              At(176, "glLightfv", <<"GL_LIGHT1", "GL_POSITION", "spotPosition">>),
              At(177, "glLightfv", <<"GL_LIGHT1", "GL_DIFFUSE", "spotDiffuse">>),
              At(178, "glLightfv", <<"GL_LIGHT1", "GL_SPECULAR", "spotSpecular">>),
              At(179, "glLightfv", <<"GL_LIGHT1", "GL_SPOT_DIRECTION", "spotDirection">>),
              At(180, "glLightf", <<"GL_LIGHT1", "GL_SPOT_CUTOFF", 60>>),
              At(181, "glLightf", <<"GL_LIGHT1", "GL_SPOT_EXPONENT", 15>>),
              At(182, "glLightf", <<"GL_LIGHT1", "GL_CONSTANT_ATTENUATION">>),
              At(183, "glLightf", <<"GL_LIGHT1", "GL_LINEAR_ATTENUATION">>),
              At(184, "glLightf", <<"GL_LIGHT1", "GL_QUADRATIC_ATTENUATION">>)>>
       ELSE <<At(188, "glDisable", <<"GL_LIGHT1">>)>>

\* A plausible slip: no else branch, the light stays as the last frame left it.
setupLightingNoElse(s) ==
    <<At(123, "glLightfv", <<"GL_LIGHT0", "GL_AMBIENT", "ambientLight">>),
      At(124, "glLightfv", <<"GL_LIGHT0", "GL_DIFFUSE", "diffuseLight">>),
      At(125, "glLightfv", <<"GL_LIGHT0", "GL_POSITION", "lightPos0">>)>>
    \o IF s.spotlightEnabled
       THEN <<At(132, "glEnable", <<"GL_LIGHT1">>),
              At(135, "glPushMatrix", <<>>),
              At(136, "glLoadIdentity", <<>>),
              Ry(140, s.lampJoints.baseRotation),
              T(141, 0, BASE_HEIGHT, 0),
              Rx(142, s.lampJoints.lowerArmAngle),
              T(143, 0, LOWER_ARM_LENGTH, 0),
              Rx(144, s.lampJoints.upperArmAngle),
              T(145, 0, UPPER_ARM_LENGTH, 0),
              Rx(146, s.lampJoints.lampshadeAngle),
              Ry(147, s.lampJoints.lampshadeRotation),
              T(148, 0, (ARM_RADIUS * 15) \div 10, 0),
              Rx(152, -90),
              T(156, 0, 0, (LAMPSHADE_HEIGHT * 6) \div 10),
              At(160, "glGetFloatv", <<"GL_MODELVIEW_MATRIX">>),
              At(169, "glPopMatrix", <<>>),
              At(176, "glLightfv", <<"GL_LIGHT1", "GL_POSITION", "spotPosition">>),
              At(177, "glLightfv", <<"GL_LIGHT1", "GL_DIFFUSE", "spotDiffuse">>),
              At(178, "glLightfv", <<"GL_LIGHT1", "GL_SPECULAR", "spotSpecular">>),
              At(179, "glLightfv", <<"GL_LIGHT1", "GL_SPOT_DIRECTION", "spotDirection">>),
              At(180, "glLightf", <<"GL_LIGHT1", "GL_SPOT_CUTOFF", 60>>),
              At(181, "glLightf", <<"GL_LIGHT1", "GL_SPOT_EXPONENT", 15>>),
              At(182, "glLightf", <<"GL_LIGHT1", "GL_CONSTANT_ATTENUATION">>),
              At(183, "glLightf", <<"GL_LIGHT1", "GL_LINEAR_ATTENUATION">>),
              At(184, "glLightf", <<"GL_LIGHT1", "GL_QUADRATIC_ATTENUATION">>)>>
       ELSE <<>>

setupLighting(s) ==
    <<At(123, "glLightfv", <<"GL_LIGHT0", "GL_AMBIENT", "ambientLight">>),
      At(124, "glLightfv", <<"GL_LIGHT0", "GL_DIFFUSE", "diffuseLight">>),
      At(125, "glLightfv", <<"GL_LIGHT0", "GL_POSITION", "lightPos0">>)>>
    \o IF s.spotlightEnabled
       THEN <<At(132, "glEnable", <<"GL_LIGHT1">>),
              At(135, "glPushMatrix", <<>>),
              At(136, "glLoadIdentity", <<>>),
              Ry(140, s.lampJoints.baseRotation),
              T(141, 0, BASE_HEIGHT, 0),
              Rx(142, s.lampJoints.lowerArmAngle),
              T(143, 0, LOWER_ARM_LENGTH, 0),
              Rx(144, s.lampJoints.upperArmAngle),
              T(145, 0, UPPER_ARM_LENGTH, 0),
              Rx(146, s.lampJoints.lampshadeAngle),
              Ry(147, s.lampJoints.lampshadeRotation),
              T(148, 0, (ARM_RADIUS * 15) \div 10, 0),
              Rx(152, -90),
              T(156, 0, 0, (LAMPSHADE_HEIGHT * 6) \div 10),
              At(160, "glGetFloatv", <<"GL_MODELVIEW_MATRIX">>),
              At(169, "glPopMatrix", <<>>),
              At(176, "glLightfv", <<"GL_LIGHT1", "GL_POSITION", "spotPosition">>),
              At(177, "glLightfv", <<"GL_LIGHT1", "GL_DIFFUSE", "spotDiffuse">>),
              At(178, "glLightfv", <<"GL_LIGHT1", "GL_SPECULAR", "spotSpecular">>),
              At(179, "glLightfv", <<"GL_LIGHT1", "GL_SPOT_DIRECTION", "spotDirection">>),
              At(180, "glLightf", <<"GL_LIGHT1", "GL_SPOT_CUTOFF", 60>>),
              At(181, "glLightf", <<"GL_LIGHT1", "GL_SPOT_EXPONENT", 15>>),
              At(182, "glLightf", <<"GL_LIGHT1", "GL_CONSTANT_ATTENUATION">>),
              At(183, "glLightf", <<"GL_LIGHT1", "GL_LINEAR_ATTENUATION">>),
              At(184, "glLightf", <<"GL_LIGHT1", "GL_QUADRATIC_ATTENUATION">>)>>
       ELSE <<At(188, "glDisable", <<"GL_LIGHT1">>)>>

drawBase ==
    materials(463)
    \o <<At(467, "glPushMatrix", <<>>),
         Rx(469, -90),
         At(470, "drawCylinder", <<BASE_RADIUS, BASE_HEIGHT, 32>>),
         T(473, 0, 0, BASE_HEIGHT),
         At(474, "drawDisk", <<0, BASE_RADIUS, 32>>),
         At(475, "glPopMatrix", <<>>)>>

\* A plausible slip: the glPopMatrix left out.
drawArmNoPop(length) ==
    materials(490)
    \o <<At(494, "glPushMatrix", <<>>),
         Rx(496, -90),
         At(497, "drawCylinder", <<ARM_RADIUS, length, 16>>)>>

drawArm(length) ==
    materials(490)
    \o <<At(494, "glPushMatrix", <<>>),
         Rx(496, -90),
         At(497, "drawCylinder", <<ARM_RADIUS, length, 16>>),
         At(498, "glPopMatrix", <<>>)>>

\* A plausible slip: the stacks argument left at zero.
drawJointNoStacks ==
    materials(512)
    \o <<At(517, "drawSphere", <<(ARM_RADIUS * 15) \div 10, 16, 16 - 16>>)>>

drawJoint ==
    materials(512)
    \o <<At(517, "drawSphere", <<(ARM_RADIUS * 15) \div 10, 16, 16>>)>>

\* A plausible slip: the alignment rotation before the step past the joint.
drawLampshadeTurnedFirst(s) ==
    materials(533)
    \o <<At(537, "glPushMatrix", <<>>),
         Rx(541, -90),
         T(539, 0, (ARM_RADIUS * 15) \div 10, 0),
         At(544, "drawCone", <<(LAMPSHADE_RADIUS * 4) \div 10, LAMPSHADE_RADIUS,
                               LAMPSHADE_HEIGHT, 32>>),
         At(547, "drawDisk", <<0, (LAMPSHADE_RADIUS * 4) \div 10, 32>>)>>
    \o (IF s.spotlightEnabled
        THEN <<At(552, "glDisable", <<"GL_LIGHTING">>),
               At(553, "glColor4f", <<>>),
               T(554, 0, 0, LAMPSHADE_HEIGHT),
               At(555, "drawDisk", <<0, (LAMPSHADE_RADIUS * 5) \div 10, 32>>),
               At(556, "glEnable", <<"GL_LIGHTING">>)>>
        ELSE <<>>)
    \o <<At(559, "glPopMatrix", <<>>)>>

drawLampshade(s) ==
    materials(533)
    \o <<At(537, "glPushMatrix", <<>>),
         T(539, 0, (ARM_RADIUS * 15) \div 10, 0),
         Rx(541, -90),
         At(544, "drawCone", <<(LAMPSHADE_RADIUS * 4) \div 10, LAMPSHADE_RADIUS,
                               LAMPSHADE_HEIGHT, 32>>),
         At(547, "drawDisk", <<0, (LAMPSHADE_RADIUS * 4) \div 10, 32>>)>>
    \o (IF s.spotlightEnabled
        THEN <<At(552, "glDisable", <<"GL_LIGHTING">>),
               At(553, "glColor4f", <<>>),
               T(554, 0, 0, LAMPSHADE_HEIGHT),
               At(555, "drawDisk", <<0, (LAMPSHADE_RADIUS * 5) \div 10, 32>>),
               At(556, "glEnable", <<"GL_LIGHTING">>)>>
        ELSE <<>>)
    \o <<At(559, "glPopMatrix", <<>>)>>

\* The grid of quads is one command here.
drawTable ==
    materials(574)
    \o <<At(578, "glPushMatrix", <<>>),
         T(579, 0, -100, 0),
         At(586, "drawQuads", <<-10000, 10000, 500>>),
         At(603, "glPopMatrix", <<>>)>>

\* A plausible slip: the test pasted from the level below, off by one joint.
highlightSpherePasted(s, joint, line) ==
    IF s.selectedJoint = joint - 1
    THEN <<At(line, "glDisable", <<"GL_LIGHTING">>),
           At(line + 1, "glColor3f", <<1, 1, 0>>),
           At(line + 2, "drawWireSphere", <<(ARM_RADIUS * 25) \div 10, 16, 16>>),
           At(line + 3, "glEnable", <<"GL_LIGHTING">>)>>
    ELSE <<>>

\* A plausible slip: lighting not switched back on after the wireframe.
highlightSphereStaysUnlit(s, joint, line) ==
    IF s.selectedJoint = joint
    THEN <<At(line, "glDisable", <<"GL_LIGHTING">>),
           At(line + 1, "glColor3f", <<1, 1, 0>>),
           At(line + 2, "drawWireSphere", <<(ARM_RADIUS * 25) \div 10, 16, 16>>)>>
    ELSE <<>>

\* if (selectedJoint == joint) { unlit yellow wireframe sphere }
highlightSphere(s, joint, line) ==
    IF s.selectedJoint = joint
    THEN <<At(line, "glDisable", <<"GL_LIGHTING">>),
           At(line + 1, "glColor3f", <<1, 1, 0>>),
           At(line + 2, "drawWireSphere", <<(ARM_RADIUS * 25) \div 10, 16, 16>>),
           At(line + 3, "glEnable", <<"GL_LIGHTING">>)>>
    ELSE <<>>

\* The commands of one display() call, in order, for the globals s.
display(s) ==
    <<At(612, "glClear", <<>>),
      At(613, "glLoadIdentity", <<>>),
      At(616, "gluLookAt", gluLookAtArgs)>>
    \o setupLighting(s)
    \o drawTable
    \o <<At(627, "glPushMatrix", <<>>),
         Ry(630, s.lampJoints.baseRotation)>>
    \o (IF s.selectedJoint = BASE
        THEN <<At(635, "glDisable", <<"GL_LIGHTING">>),
               At(636, "glColor3f", <<1, 1, 0>>),
               At(637, "glPushMatrix", <<>>),
               T(638, 0, (BASE_HEIGHT * 5) \div 10, 0),
               At(639, "drawWireCube", <<(BASE_RADIUS * 22) \div 10>>),
               At(640, "glPopMatrix", <<>>),
               At(641, "glEnable", <<"GL_LIGHTING">>)>>
        ELSE <<>>)
    \o drawBase
    \o <<T(645, 0, BASE_HEIGHT, 0)>>
    \o highlightSphere(s, LOWER_ARM, 650)
    \o drawJoint
    \o <<Rx(657, s.lampJoints.lowerArmAngle)>>
    \o drawArm(LOWER_ARM_LENGTH)
    \o <<T(659, 0, LOWER_ARM_LENGTH, 0)>>
    \o highlightSphere(s, UPPER_ARM, 664)
    \o drawJoint
    \o <<Rx(671, s.lampJoints.upperArmAngle)>>
    \o drawArm(UPPER_ARM_LENGTH)
    \o <<T(673, 0, UPPER_ARM_LENGTH, 0)>>
    \o highlightSphere(s, LAMPSHADE, 678)
    \o drawJoint
    \o <<Rx(685, s.lampJoints.lampshadeAngle),
         Ry(686, s.lampJoints.lampshadeRotation)>>
    \o drawLampshade(s)
    \o <<At(689, "glPopMatrix", <<>>),
         At(692, "glDisable", <<"GL_LIGHTING">>),
         At(695, "glMatrixMode", <<"GL_PROJECTION">>),
         At(696, "glPushMatrix", <<>>),
         At(697, "glLoadIdentity", <<>>),
         At(698, "gluOrtho2D", <<0, WINDOW_WIDTH, 0, WINDOW_HEIGHT>>),
         At(699, "glMatrixMode", <<"GL_MODELVIEW">>),
         At(700, "glPushMatrix", <<>>),
         At(701, "glLoadIdentity", <<>>),
         At(704, "glColor3f", <<1, 1, 1>>),
         At(705, "glRasterPos2f", <<10, WINDOW_HEIGHT - 20>>),
         At(710, "glutBitmapCharacter", <<"Selected Joint", s.selectedJoint>>),
         At(714, "glRasterPos2f", <<10, WINDOW_HEIGHT - 45>>),
         At(718, "glutBitmapCharacter", <<"Spotlight", s.spotlightEnabled>>),
         At(722, "glPopMatrix", <<>>),
         At(723, "glMatrixMode", <<"GL_PROJECTION">>),
         At(724, "glPopMatrix", <<>>),
         At(725, "glMatrixMode", <<"GL_MODELVIEW">>),
         At(726, "glEnable", <<"GL_LIGHTING">>),
         At(728, "glutSwapBuffers", <<>>)>>

\* ---------------------------------------------------- what a frame leaves
\* The routines that hand geometry to the pipeline.
DrawCalls ==
    {"drawCylinder", "drawDisk", "drawCone", "drawSphere", "drawWireCube",
     "drawWireSphere", "drawQuads"}

\* Column n of a matrix read back with glGetFloatv.
Column(n, m) == [column |-> n, of |-> m]

\* The value of a local array of setupLighting() given the matrix read back.
LightArg(name, modelview) ==
    CASE name = "spotPosition" -> Column(4, modelview)
      [] name = "spotDirection" -> Column(3, modelview)
      [] OTHER -> name

\* The record of a frame after command c issued in GL state g: glGetFloatv
\* keeps the modelview matrix, a draw call or a glLightfv is recorded with the
\* modelview matrix and the lighting switch it is issued under.
Track(c, g, f) ==
    LET top == g.modelview[Len(g.modelview)]
        entry(args) == [line |-> c.line, op |-> c.op, a |-> args,
                        matrix |-> top, lighting |-> g.lighting]
    IN  CASE c.op = "glGetFloatv" -> [f EXCEPT !.modelview = top]
          [] c.op \in DrawCalls -> [f EXCEPT !.drawn = Append(@, entry(c.a))]
          [] c.op = "glLightfv" ->
               [f EXCEPT !.drawn =
                   Append(@, entry(<<c.a[1], c.a[2], LightArg(c.a[3], f.modelview)>>))]
          [] OTHER -> f

\* ------------------------------------------------------ explored envelope
\* Offset of each joint field from its startup value.
Offset(j) == [f \in JointFields |-> Abs(j[f] - InitLampJoints[f])]

\* Total offset of the joint fields other than the most displaced one.
Secondary(j) ==
    LET o == Offset(j)
        total == o["baseRotation"] + o["lowerArmAngle"] + o["upperArmAngle"]
                 + o["lampshadeAngle"] + o["lampshadeRotation"]
        largest == CHOOSE m \in {o[f] : f \in JointFields} :
                       \A f \in JointFields : o[f] <= m
    IN  total - largest

WithinBounds(s) ==
    /\ Abs(s.lampJoints.baseRotation) <= MaxRot
    /\ Abs(s.lampJoints.lampshadeRotation) <= MaxRot
    /\ Secondary(s.lampJoints) <= MaxSecondary

\* ------------------------------------------------- the registered callbacks
\* A plausible slip: the redraw requested only when the switch changed
\* something.
keyboardCallbackIfChanged(key, s, pending) ==
    [state |-> keyboard(key, s),
     redisplayPending |-> pending \/ keyboard(key, s) # s]

\* keyboard() as GLUT calls it, for a key other than ESC: the switch, then
\* glutPostRedisplay(), which leaves a redisplay pending whatever the switch
\* did.
keyboardCallback(key, s, pending) ==
    [state |-> keyboard(key, s), redisplayPending |-> TRUE]

\* specialKeys() as GLUT calls it: the switch, then glutPostRedisplay().
specialKeysCallback(key, s, pending) ==
    [state |-> specialKeys(key, s), redisplayPending |-> TRUE]

\* ------------------------------------------------------------ the machine
\* init(): the two matrix stacks hold the identity, lighting and both lights
\* are enabled.  A matrix is the sequence of transforms multiplied onto it.
GLInit ==
    [matrixMode |-> "GL_MODELVIEW",
     modelview |-> << <<>> >>,
     projection |-> << <<>> >>,
     lighting |-> TRUE,
     light1 |-> TRUE,
     viewport |-> <<0, 0, 0, 0>>]

\* No display() call in progress.
FrameIdle == [pc |-> 0, drawn |-> <<>>, modelview |-> <<>>]

\* No primitive or reshape() call in progress.
NoCall == [fn |-> "none", a |-> <<>>, returned |-> TRUE]

Init ==
    /\ lampJoints = InitLampJoints
    /\ selectedJoint = BASE
    /\ spotlightEnabled = TRUE
    /\ running = TRUE
    /\ redisplayPending = TRUE
    /\ gl = GLInit
    /\ frame = FrameIdle
    /\ call = NoCall
    /\ emitted = <<>>

\* glutKeyboardFunc callback, any key but ESC: the switch, then glutPostRedisplay.
KeyboardEvent ==
    /\ running
    /\ frame.pc = 0
    /\ \E key \in AsciiKeys \ {ESC} :
         LET r == keyboardCallback(key, State, redisplayPending) IN
         /\ lampJoints' = r.state.lampJoints
         /\ selectedJoint' = r.state.selectedJoint
         /\ spotlightEnabled' = r.state.spotlightEnabled
         /\ redisplayPending' = r.redisplayPending
    /\ UNCHANGED <<running, gl, frame, call, emitted>>

\* glutKeyboardFunc callback, ESC: exit(0) ends the process inside the switch.
KeyboardEsc ==
    /\ running
    /\ frame.pc = 0
    /\ running' = FALSE
    /\ UNCHANGED <<lampJoints, selectedJoint, spotlightEnabled, redisplayPending,
                   gl, frame, call, emitted>>

\* glutSpecialFunc callback: the switch, then glutPostRedisplay.
SpecialKeysEvent ==
    /\ running
    /\ frame.pc = 0
    /\ \E key \in SpecialKeyCodes :
         LET r == specialKeysCallback(key, State, redisplayPending) IN
         /\ WithinBounds(r.state)
         /\ lampJoints' = r.state.lampJoints
         /\ selectedJoint' = r.state.selectedJoint
         /\ spotlightEnabled' = r.state.spotlightEnabled
         /\ redisplayPending' = r.redisplayPending
    /\ UNCHANGED <<running, gl, frame, call, emitted>>

\* glutDisplayFunc callback, run to completion: GLUT serves the pending
\* redisplay; display() only reads the three globals, and every push, mode
\* switch and glDisable(GL_LIGHTING) it makes it undoes, so what it leaves in
\* the GL state is the camera on the modelview matrix and GL_LIGHT1 as
\* setupLighting() set it from spotlightEnabled.
DisplayEvent ==
    /\ running
    /\ frame.pc = 0
    /\ redisplayPending
    /\ redisplayPending' = FALSE
    /\ gl' = [gl EXCEPT !.light1 = spotlightEnabled,
                         !.modelview = <<cameraMatrix>>]
    /\ UNCHANGED <<lampJoints, selectedJoint, spotlightEnabled, running,
                   frame, call, emitted>>

Next == KeyboardEvent \/ KeyboardEsc \/ SpecialKeysEvent \/ DisplayEvent

Spec == Init /\ [][Next]_vars

\* ------------------------------------------- one call of a drawing routine
\* The drawing primitives and reshape() called once on arguments drawn from
\* small ranges; the lamp's globals stay as constructed.
Radii == 0 .. MaxLen
SliceCounts == 0 .. MaxSlices
StackCounts == 0 .. MaxStacks
WindowDims == 0 .. MaxDim

Calls ==
    [fn : {"drawDisk"}, a : Radii \X Radii \X SliceCounts, returned : {FALSE}]
    \cup [fn : {"drawCylinder"}, a : Radii \X Radii \X SliceCounts, returned : {FALSE}]
    \cup [fn : {"drawCone"}, a : Radii \X Radii \X Radii \X SliceCounts, returned : {FALSE}]
    \cup [fn : {"drawSphere"}, a : Radii \X SliceCounts \X StackCounts, returned : {FALSE}]
    \cup [fn : {"drawWireCube"}, a : {<<size>> : size \in 1 .. MaxLen}, returned : {FALSE}]
    \cup [fn : {"drawWireSphere"}, a : Radii \X SliceCounts \X StackCounts, returned : {FALSE}]
    \cup [fn : {"reshape"}, a : WindowDims \X WindowDims, returned : {FALSE}]

InitCalls ==
    /\ lampJoints = InitLampJoints
    /\ selectedJoint = BASE
    /\ spotlightEnabled = TRUE
    /\ running = TRUE
    /\ redisplayPending = TRUE
    /\ gl = GLInit
    /\ frame = FrameIdle
    /\ call \in Calls
    /\ emitted = <<>>

\* The pending call runs to its return, issuing cs.
Returns(cs) ==
    /\ ~call.returned
    /\ emitted' = cs
    /\ gl' = IF call.fn = "reshape" THEN Run(cs, gl) ELSE gl
    /\ call' = [call EXCEPT !.returned = TRUE]
    /\ UNCHANGED <<lampJoints, selectedJoint, spotlightEnabled, running,
                   redisplayPending, frame>>

CallDrawDisk ==
    /\ call.fn = "drawDisk"
    /\ Returns(drawDisk(call.a[1], call.a[2], call.a[3]))
CallDrawCylinder ==
    /\ call.fn = "drawCylinder"
    /\ Returns(drawCylinder(call.a[1], call.a[2], call.a[3]))
CallDrawCone ==
    /\ call.fn = "drawCone"
    /\ Returns(drawCone(call.a[1], call.a[2], call.a[3], call.a[4]))
CallDrawSphere ==
    /\ call.fn = "drawSphere"
    /\ Returns(drawSphere(call.a[1], call.a[2], call.a[3]))
CallDrawWireCube ==
    /\ call.fn = "drawWireCube"
    /\ Returns(drawWireCube(call.a[1]))
CallDrawWireSphere ==
    /\ call.fn = "drawWireSphere"
    /\ Returns(drawWireSphere(call.a[1], call.a[2], call.a[3]))
CallReshape ==
    /\ call.fn = "reshape"
    /\ Returns(reshape(call.a[1], call.a[2]))

NextCalls ==
    \/ CallDrawDisk
    \/ CallDrawCylinder
    \/ CallDrawCone
    \/ CallDrawSphere
    \/ CallDrawWireCube
    \/ CallDrawWireSphere
    \/ CallReshape

SpecCalls == InitCalls /\ [][NextCalls]_vars

\* ------------------------------------------- display() one command at a time
\* The poses a frame is rendered for: at most MaxFrameSteps arrow presses
\* away from the startup pose.
FrameWithin(j) ==
    LET o == Offset(j)
    IN  o["baseRotation"] + o["lowerArmAngle"] + o["upperArmAngle"]
        + o["lampshadeAngle"] + o["lampshadeRotation"] <= rotationStep * MaxFrameSteps

\* glutSpecialFunc callback between two frames.
FrameSpecialKeysEvent ==
    /\ running
    /\ frame.pc = 0
    /\ \E key \in SpecialKeyCodes :
         LET r == specialKeysCallback(key, State, redisplayPending) IN
         /\ FrameWithin(r.state.lampJoints)
         /\ lampJoints' = r.state.lampJoints
         /\ selectedJoint' = r.state.selectedJoint
         /\ spotlightEnabled' = r.state.spotlightEnabled
         /\ redisplayPending' = r.redisplayPending
    /\ UNCHANGED <<running, gl, frame, call, emitted>>

\* GLUT serves the pending redisplay: display() is entered.
DisplayBegin ==
    /\ running
    /\ frame.pc = 0
    /\ redisplayPending
    /\ redisplayPending' = FALSE
    /\ frame' = [FrameIdle EXCEPT !.pc = 1]
    /\ UNCHANGED <<lampJoints, selectedJoint, spotlightEnabled, running, gl,
                   call, emitted>>

\* The next command of display(); no callback runs in between.
DisplayStep ==
    /\ frame.pc \in 1 .. Len(display(State))
    /\ LET c == display(State)[frame.pc]
       IN  /\ gl' = Exec(c, gl)
           /\ frame' = [Track(c, gl, frame) EXCEPT !.pc = frame.pc + 1]
    /\ UNCHANGED <<lampJoints, selectedJoint, spotlightEnabled, running,
                   redisplayPending, call, emitted>>

\* display() returns to the GLUT main loop.
DisplayReturn ==
    /\ frame.pc = Len(display(State)) + 1
    /\ frame' = FrameIdle
    /\ UNCHANGED <<lampJoints, selectedJoint, spotlightEnabled, running,
                   redisplayPending, gl, call, emitted>>

NextFrame ==
    \/ KeyboardEvent
    \/ KeyboardEsc
    \/ FrameSpecialKeysEvent
    \/ DisplayBegin
    \/ DisplayStep
    \/ DisplayReturn

SpecFrame == Init /\ [][NextFrame]_vars

\* ======================================================== checked claims
ArrowKeys == {GLUT_KEY_LEFT, GLUT_KEY_RIGHT, GLUT_KEY_UP, GLUT_KEY_DOWN}
SelectKeys == {"1", "2", "3", "4"}
ResetKeys == {"r", "R"}

\* C1: in every reachable state lowerArmAngle is in [-10, 90], upperArmAngle
\* in [-120, 90] and lampshadeAngle in [-90, 45].
C1_AnglesInRange ==
    /\ lampJoints.lowerArmAngle >= -10 /\ lampJoints.lowerArmAngle <= 90
    /\ lampJoints.upperArmAngle >= -120 /\ lampJoints.upperArmAngle <= 90
    /\ lampJoints.lampshadeAngle >= -90 /\ lampJoints.lampshadeAngle <= 45

\* A clamp has cut a step: -10 is not a whole number of steps from 30.
C1_Witness == lampJoints.lowerArmAngle = -10

\* C2: with LowerArm selected and lowerArmAngle below 90, pressing UP until a
\* press changes nothing takes finitely many presses (at most MaxPresses),
\* ends with lowerArmAngle exactly 90 and every other field as it was, and
\* one more UP leaves the state as it is.
C2_UpConvergesTo90 ==
    (selectedJoint = LOWER_ARM /\ lampJoints.lowerArmAngle < 90) =>
        LET t == Settle(GLUT_KEY_UP, State, MaxPresses)
        IN  /\ t.lampJoints = [lampJoints EXCEPT !.lowerArmAngle = 90]
            /\ specialKeys(GLUT_KEY_UP, t) = t
            /\ specialKeys(GLUT_KEY_UP, State).lampJoints.lowerArmAngle
                 > lampJoints.lowerArmAngle

\* LowerArm selected one degree below the limit: the last step is cut.
C2_Witness == selectedJoint = LOWER_ARM /\ lampJoints.lowerArmAngle = 89

\* C3: in every reachable state, whatever the selection and the spotlight
\* flag, R (or r) sets the five joint fields to the values they have at
\* startup.
C3_ResetRestoresStartup ==
    \A key \in ResetKeys :
        keyboard(key, State).lampJoints = InitLampJoints

\* Reset matters here: a joint is displaced, the lampshade is selected and
\* the spotlight is off.
C3_Witness ==
    /\ lampJoints # InitLampJoints
    /\ selectedJoint = LAMPSHADE
    /\ ~spotlightEnabled

\* The default pose the end-to-end scenario starts from.
C4_Pose == [baseRotation |-> 0, lowerArmAngle |-> 45, upperArmAngle |-> -60,
            lampshadeAngle |-> -30, lampshadeRotation |-> 0]

\* C4 (as claimed): the startup pose is (0, 45, -60, -30, 0), and from it
\* key 3 followed by four UP presses gives upperArmAngle = -48 with every
\* other field as at startup.
C4_EndToEnd ==
    (lampJoints = InitLampJoints) =>
        /\ lampJoints = C4_Pose
        /\ Press(GLUT_KEY_UP, keyboard("3", State), 4).lampJoints
             = [C4_Pose EXCEPT !.upperArmAngle = -48]

\* C5: in every reachable state, key 2 followed by DOWN leaves baseRotation,
\* upperArmAngle, lampshadeAngle and lampshadeRotation as they were.
C5_DownMovesOnlyLowerArm ==
    LET t == specialKeys(GLUT_KEY_DOWN, keyboard("2", State))
    IN  \A f \in JointFields \ {"lowerArmAngle"} :
            t.lampJoints[f] = lampJoints[f]

\* Another joint is selected and displaced when the two events arrive.
C5_Witness == selectedJoint = UPPER_ARM /\ lampJoints.upperArmAngle = -57

\* Fields of JointState whose value differs between two poses.
ChangedFields(j, k) == {f \in JointFields : j[f] # k[f]}

\* C6 (as claimed): every step that changes JointState either sets it to the
\* defaults or changes exactly one field by exactly 3.
C6_ExactlyThree ==
    [][lampJoints' # lampJoints =>
          \/ lampJoints' = [baseRotation |-> 0, lowerArmAngle |-> 30,
                            upperArmAngle |-> -60, lampshadeAngle |-> -90,
                            lampshadeRotation |-> 0]
          \/ /\ Cardinality(ChangedFields(lampJoints, lampJoints')) = 1
             /\ \A f \in ChangedFields(lampJoints, lampJoints') :
                    Abs(lampJoints'[f] - lampJoints[f]) = 3]_vars

\* The limits of the three clamped fields, as the data model declares them.
C6_Limits(f) ==
    CASE f = "lowerArmAngle" -> {-10, 90}
      [] f = "upperArmAngle" -> {-120, 90}
      [] f = "lampshadeAngle" -> {-90, 45}
      [] OTHER -> {}

\* C6 (amended): every step that changes JointState either sets it to the
\* defaults or changes exactly one field, by exactly 3 or, when a clamp
\* cuts the step, by less than 3 onto that field's limit.
C6_ThreeOrCutByClamp ==
    [][lampJoints' # lampJoints =>
          \/ lampJoints' = [baseRotation |-> 0, lowerArmAngle |-> 30,
                            upperArmAngle |-> -60, lampshadeAngle |-> -90,
                            lampshadeRotation |-> 0]
          \/ /\ Cardinality(ChangedFields(lampJoints, lampJoints')) = 1
             /\ \A f \in ChangedFields(lampJoints, lampJoints') :
                    \/ Abs(lampJoints'[f] - lampJoints[f]) = 3
                    \/ /\ Abs(lampJoints'[f] - lampJoints[f]) < 3
                       /\ lampJoints'[f] \in C6_Limits(f)]_vars

\* The lower arm sits on its lower limit, which only a cut step reaches,
\* and the event has been rendered.
C6_Witness ==
    /\ selectedJoint = LOWER_ARM
    /\ lampJoints.lowerArmAngle = -10
    /\ ~redisplayPending

\* The joint a select key stands for.
C7_JointOf(key) ==
    CASE key = "1" -> 0
      [] key = "2" -> 1
      [] key = "3" -> 2
      [] key = "4" -> 3

\* C7: in every reachable state each of the keys 1..4 sets selectedJoint to
\* Base, LowerArm, UpperArm, Lampshade respectively and leaves the five joint
\* fields and spotlightEnabled as they were.
C7_SelectOnlySelects ==
    \A key \in SelectKeys :
        LET t == keyboard(key, State)
        IN  /\ t.selectedJoint = C7_JointOf(key)
            /\ t.lampJoints = lampJoints
            /\ t.spotlightEnabled = spotlightEnabled

\* A state with something to disturb: not the base selected, the spotlight
\* off, a joint displaced.
C7_Witness ==
    /\ selectedJoint = UPPER_ARM
    /\ ~spotlightEnabled
    /\ lampJoints.upperArmAngle = 90

\* C8: selectedJoint is Base at startup; in every reachable state it is one
\* of the four joints, and no key other than 1..4 changes it.
C8_SelectionDiscipline ==
    /\ selectedJoint = 0
    /\ [](/\ selectedJoint \in {0, 1, 2, 3}
          /\ \A key \in AsciiKeys \ (SelectKeys \cup {ESC}) :
                 keyboard(key, State).selectedJoint = selectedJoint
          /\ \A key \in SpecialKeyCodes :
                 specialKeys(key, State).selectedJoint = selectedJoint)

\* The lampshade is selected and arrow keys have moved it since.
C8_Witness ==
    /\ selectedJoint = LAMPSHADE
    /\ lampJoints.lampshadeRotation = 6

RECURSIVE ExactRun(_, _, _, _, _, _, _)
\* Presses k+1 .. n of key, starting in s, leave field f at v + i * d after
\* the i-th press.
ExactRun(key, f, v, d, s, k, n) ==
    \/ k = n
    \/ LET t == specialKeys(key, s)
       IN  /\ t.lampJoints[f] = v + (k + 1) * d
           /\ ExactRun(key, f, v, d, t, k + 1, n)

\* C9: with Base selected, n consecutive RIGHT presses from baseRotation v
\* give exactly v + 3n and n LEFT presses exactly v - 3n, for every
\* n <= MaxRun and every reachable v, values beyond 360 and -360 included;
\* the same for lampshadeRotation with Lampshade selected.
C9_RotationsUnbounded ==
    /\ selectedJoint = BASE =>
         /\ ExactRun(GLUT_KEY_RIGHT, "baseRotation",
                     lampJoints.baseRotation, 3, State, 0, MaxRun)
         /\ ExactRun(GLUT_KEY_LEFT, "baseRotation",
                     lampJoints.baseRotation, -3, State, 0, MaxRun)
    /\ selectedJoint = LAMPSHADE =>
         /\ ExactRun(GLUT_KEY_RIGHT, "lampshadeRotation",
                     lampJoints.lampshadeRotation, 3, State, 0, MaxRun)
         /\ ExactRun(GLUT_KEY_LEFT, "lampshadeRotation",
                     lampJoints.lampshadeRotation, -3, State, 0, MaxRun)

\* The base is selected and has been turned past a full turn.
C9_Witness ==
    /\ selectedJoint = BASE
    /\ lampJoints.baseRotation < -360

\* The field an arrow key moves under a selection, "none" if it moves none.
C10_Target(key, sel) ==
    IF key \in {GLUT_KEY_LEFT, GLUT_KEY_RIGHT}
    THEN CASE sel = 0 -> "baseRotation"
           [] sel = 3 -> "lampshadeRotation"
           [] OTHER -> "none"
    ELSE CASE sel = 1 -> "lowerArmAngle"
           [] sel = 2 -> "upperArmAngle"
           [] sel = 3 -> "lampshadeAngle"
           [] OTHER -> "none"

\* C10: in every reachable state an arrow key changes no joint field other
\* than the one its (key, selection) pair designates, and none at all when
\* the pair designates none; LEFT and RIGHT do change the designated field.
C10_ArrowDispatch ==
    \A key \in ArrowKeys :
        LET t == specialKeys(key, State)
            f == C10_Target(key, selectedJoint)
        IN  /\ \A g \in JointFields \ {f} : t.lampJoints[g] = lampJoints[g]
            /\ (f # "none" /\ key \in {GLUT_KEY_LEFT, GLUT_KEY_RIGHT}) =>
                   t.lampJoints[f] # lampJoints[f]

\* An arm is selected, so LEFT and RIGHT designate no field.
C10_Witness == selectedJoint = LOWER_ARM /\ lampJoints.lowerArmAngle = 33

\* C11: in every reachable state, R pressed twice leaves the same joint
\* fields, selection and spotlight flag as R pressed once.
C11_ResetIdempotent ==
    \A key \in ResetKeys :
        keyboard(key, keyboard(key, State)) = keyboard(key, State)

\* The base has been turned a full turn and more and the spotlight is off
\* when the resets arrive.
C11_Witness ==
    /\ lampJoints.baseRotation = 366
    /\ selectedJoint = BASE
    /\ ~spotlightEnabled


\* The commands of a stream with the given name, in order.
Commands(cs, name) == SelectSeq(cs, LAMBDA c : c.op = name)

\* One primitive: glBegin first, glEnd last, neither anywhere else.
OneStrip(cs) ==
    /\ Len(cs) >= 2
    /\ cs[1].op = "glBegin"
    /\ cs[Len(cs)].op = "glEnd"
    /\ Len(Commands(cs, "glBegin")) = 1
    /\ Len(Commands(cs, "glEnd")) = 1

\* C16: whenever drawCylinder, drawCone or drawDisk has returned from a call
\* with slices >= 1, it has emitted one strip of exactly 2*(slices+1)
\* vertices; the cylinder's vertices are the (bottom z = 0, top z = height)
\* pairs of the angle indices i = 0..slices in increasing order.
C16_StripOfPairs ==
    (call.returned /\ call.fn \in {"drawCylinder", "drawCone", "drawDisk"}
        /\ call.a[Len(call.a)] >= 1) =>
        LET slices == call.a[Len(call.a)]
            v == Commands(emitted, "glVertex3f")
        IN  /\ OneStrip(emitted)
            /\ Len(v) = 2 * (slices + 1)
            /\ call.fn = "drawCylinder" =>
                 \A i \in 0 .. slices :
                    /\ v[2 * i + 1].a = <<call.a[1], TwoPiTimes(i, slices), 0>>
                    /\ v[2 * i + 2].a = <<call.a[1], TwoPiTimes(i, slices), call.a[2]>>

C16_Witness ==
    /\ call.returned
    /\ call.fn = "drawCylinder"
    /\ call.a = <<1, 2, 3>>
    /\ Len(Commands(emitted, "glVertex3f")) = 8

\* C17: whenever drawSphere has returned from a call with slices >= 1 and
\* stacks >= 1, its commands are exactly `stacks` blocks, each a
\* glBegin(GL_QUAD_STRIP), then 2*(slices+1) (normal, vertex) couples whose
\* normal has the angles of its vertex, then a glEnd.
C17_SphereStrips ==
    (call.returned /\ call.fn = "drawSphere" /\ call.a[2] >= 1 /\ call.a[3] >= 1) =>
        LET slices == call.a[2]
            stacks == call.a[3]
            block == 4 * (slices + 1) + 2
        IN  /\ Len(emitted) = stacks * block
            /\ \A k \in 0 .. stacks - 1 :
                 /\ emitted[k * block + 1] = Op("glBegin", <<"GL_QUAD_STRIP">>)
                 /\ emitted[(k + 1) * block].op = "glEnd"
                 /\ \A n \in 1 .. 2 * (slices + 1) :
                      LET normal == emitted[k * block + 2 * n]
                          vertex == emitted[k * block + 2 * n + 1]
                      IN  /\ normal.op = "glNormal3f"
                          /\ vertex.op = "glVertex3f"
                          /\ normal.a[2] = vertex.a[2]
                          /\ normal.a[3] = vertex.a[3]

C17_Witness ==
    /\ call.returned
    /\ call.fn = "drawSphere"
    /\ call.a = <<1, 2, 3>>
    /\ Len(Commands(emitted, "glBegin")) = 3
    /\ Len(Commands(emitted, "glVertex3f")) = 18

\* C18: whenever drawWireCube has returned, it has emitted one GL_LINES
\* primitive of 24 vertices, i.e. 12 segments over 8 distinct corners at
\* +-size/2; the segments are pairwise distinct as unordered pairs, each joins
\* corners differing in exactly one coordinate, and every corner ends
\* exactly 3 segments.
C18_CubeEdges ==
    (call.returned /\ call.fn = "drawWireCube") =>
        LET v == Commands(emitted, "glVertex3fv")
            segment(k) == {v[2 * k - 1].a, v[2 * k].a}
            corners == {v[k].a : k \in 1 .. Len(v)}
            halves == {FloatDiv(call.a[1], 2), FloatDiv(-call.a[1], 2)}
        IN  /\ OneStrip(emitted)
            /\ emitted[1].a = <<"GL_LINES">>
            /\ Len(emitted) = 26
            /\ Len(v) = 24
            /\ Cardinality(corners) = 8
            /\ \A c \in corners : \A x \in 1 .. 3 : c[x] \in halves
            /\ \A k, l \in 1 .. 12 : k # l => segment(k) # segment(l)
            /\ \A k \in 1 .. 12 :
                 Cardinality({x \in 1 .. 3 : v[2 * k - 1].a[x] # v[2 * k].a[x]}) = 1
            /\ \A c \in corners :
                 Cardinality({k \in 1 .. 12 : c \in segment(k)}) = 3

C18_Witness ==
    /\ call.returned
    /\ call.fn = "drawWireCube"
    /\ call.a = <<2>>
    /\ emitted[25].a = <<FloatDiv(-2, 2), FloatDiv(2, 2), FloatDiv(-2, 2)>>

\* C19: whenever drawWireSphere has returned from a call with slices >= 1
\* and stacks >= 1, its commands are exactly stacks+1 GL_LINE_LOOP blocks of
\* `slices` vertices each, followed by exactly `slices` GL_LINE_STRIP blocks
\* of stacks+1 vertices each.
C19_LoopsThenStrips ==
    (call.returned /\ call.fn = "drawWireSphere" /\ call.a[2] >= 1 /\ call.a[3] >= 1) =>
        LET slices == call.a[2]
            stacks == call.a[3]
            loop == slices + 2
            strip == stacks + 3
            loops == (stacks + 1) * loop
        IN  /\ Len(emitted) = loops + slices * strip
            /\ \A i \in 0 .. stacks :
                 /\ emitted[i * loop + 1] = Op("glBegin", <<"GL_LINE_LOOP">>)
                 /\ \A n \in 1 .. slices : emitted[i * loop + 1 + n].op = "glVertex3f"
                 /\ emitted[(i + 1) * loop].op = "glEnd"
            /\ \A j \in 0 .. slices - 1 :
                 /\ emitted[loops + j * strip + 1] = Op("glBegin", <<"GL_LINE_STRIP">>)
                 /\ \A n \in 1 .. stacks + 1 :
                      emitted[loops + j * strip + 1 + n].op = "glVertex3f"
                 /\ emitted[loops + (j + 1) * strip].op = "glEnd"

C19_Witness ==
    /\ call.returned
    /\ call.fn = "drawWireSphere"
    /\ call.a = <<1, 3, 2>>
    /\ Commands(emitted, "glBegin")
         = <<Op("glBegin", <<"GL_LINE_LOOP">>), Op("glBegin", <<"GL_LINE_LOOP">>),
             Op("glBegin", <<"GL_LINE_LOOP">>), Op("glBegin", <<"GL_LINE_STRIP">>),
             Op("glBegin", <<"GL_LINE_STRIP">>), Op("glBegin", <<"GL_LINE_STRIP">>)>>

\* C20: whenever reshape has returned, the aspect ratio it handed to
\* gluPerspective is no NaN: it is the quotient width / max(height, 1), whose
\* divisor is not zero.
C20_AspectDefined ==
    (call.returned /\ call.fn = "reshape") =>
        LET p == Commands(emitted, "gluPerspective")
            width == call.a[1]
            divisor == IF call.a[2] >= 1 THEN call.a[2] ELSE 1
        IN  /\ Len(p) = 1
            /\ p[1].a[2] # NaN
            /\ p[1].a[2].den # 0
            /\ p[1].a[2].num * divisor = width * p[1].a[2].den
            /\ gl.viewport[4] # 0

C20_Witness ==
    /\ call.returned
    /\ call.fn = "reshape"
    /\ call.a = <<2, 0>>
    /\ emitted[4].a[2] = [num |-> 2, den |-> 1]
    /\ gl.viewport = <<0, 0, 2, 1>>

\* display() has issued its last command and not yet returned.
AtReturn == frame.pc = Len(display(State)) + 1

\* What the frame recorded for the commands of one routine.
Drawn(name) == SelectSeq(frame.drawn, LAMBDA e : e.op = name)

\* What the frame recorded for the glLightfv calls on one parameter of GL_LIGHT1.
Lit(pname) ==
    SelectSeq(frame.drawn,
              LAMBDA e : e.op = "glLightfv" /\ e.a[1] = "GL_LIGHT1" /\ e.a[2] = pname)

\* C12: in every frame rendered with the spotlight on, the matrix the
\* lampshade cone is drawn under is the camera followed by the operations of
\* the pose setupLighting() read back, all but its last, in the same order
\* with the same arguments; that last operation is the translation into the
\* shade, and the light's position and direction, columns of that pose, are
\* handed to GL under the camera alone.
C12_LightOnShadeFrame ==
    (AtReturn /\ spotlightEnabled) =>
        LET cone == Drawn("drawCone")
            position == Lit("GL_POSITION")
            direction == Lit("GL_SPOT_DIRECTION")
            pose == frame.modelview
        IN  /\ Len(cone) = 1
            /\ Len(position) = 1
            /\ Len(direction) = 1
            /\ Len(pose) >= 1
            /\ cone[1].matrix = cameraMatrix \o SubSeq(pose, 1, Len(pose) - 1)
            /\ pose[Len(pose)] = Op("glTranslatef", <<0, 0, (LAMPSHADE_HEIGHT * 6) \div 10>>)
            /\ position[1].a[3] = Column(4, pose)
            /\ position[1].matrix = cameraMatrix
            /\ direction[1].a[3] = Column(3, pose)
            /\ direction[1].matrix = cameraMatrix

C12_Witness ==
    /\ AtReturn
    /\ spotlightEnabled
    /\ lampJoints.baseRotation = -3
    /\ lampJoints.lowerArmAngle = 33
    /\ Len(Drawn("drawCone")) = 1
    /\ Len(Drawn("drawCone")[1].matrix) = 11

\* C13: in every frame rendered with the spotlight on, the pose
\* setupLighting() read back is exactly: Ry(baseRotation), T(0, BASE_HEIGHT,
\* 0), Rx(lowerArmAngle), T(0, LOWER_ARM_LENGTH, 0), Rx(upperArmAngle),
\* T(0, UPPER_ARM_LENGTH, 0), Rx(lampshadeAngle), Ry(lampshadeRotation),
\* T(0, 1.5 ARM_RADIUS, 0), Rx(-90), T(0, 0, 0.6 LAMPSHADE_HEIGHT), with
\* nothing (no camera) before the first.
C13_EmitterChain ==
    (AtReturn /\ spotlightEnabled) =>
        frame.modelview =
            <<Op("glRotatef", <<lampJoints.baseRotation, 0, 1, 0>>),
              Op("glTranslatef", <<0, 300, 0>>),
              Op("glRotatef", <<lampJoints.lowerArmAngle, 1, 0, 0>>),
              Op("glTranslatef", <<0, 3000, 0>>),
              Op("glRotatef", <<lampJoints.upperArmAngle, 1, 0, 0>>),
              Op("glTranslatef", <<0, 2500, 0>>),
              Op("glRotatef", <<lampJoints.lampshadeAngle, 1, 0, 0>>),
              Op("glRotatef", <<lampJoints.lampshadeRotation, 0, 1, 0>>),
              Op("glTranslatef", <<0, 225, 0>>),
              Op("glRotatef", <<-90, 1, 0, 0>>),
              Op("glTranslatef", <<0, 0, 720>>)>>

C13_Witness ==
    /\ AtReturn
    /\ spotlightEnabled
    /\ Len(frame.modelview) = 11
    /\ frame.modelview[7].a[1] = -87
    /\ frame.modelview[8].a[1] = 3

\* The disks the frame drew with lighting switched off.
UnlitDisks == SelectSeq(frame.drawn, LAMBDA e : e.op = "drawDisk" /\ ~e.lighting)

\* C14: at the end of every frame GL_LIGHT1 is enabled exactly if
\* spotlightEnabled is true, and the frame has drawn an unlit disk (one, at
\* the opening of the shade) exactly if spotlightEnabled is true.
C14_SpotlightGates ==
    AtReturn =>
        /\ gl.light1 <=> spotlightEnabled
        /\ Len(UnlitDisks) = IF spotlightEnabled THEN 1 ELSE 0
        /\ \A k \in 1 .. Len(UnlitDisks) :
             UnlitDisks[k].matrix =
                 Drawn("drawCone")[1].matrix
                 \o <<Op("glTranslatef", <<0, 0, LAMPSHADE_HEIGHT>>)>>

C14_Witness ==
    /\ AtReturn
    /\ ~spotlightEnabled
    /\ ~gl.light1
    /\ UnlitDisks = <<>>
    /\ selectedJoint = UPPER_ARM
    /\ Len(Drawn("drawDisk")) = 2

\* The kinematic chain of display() down to the lampshade joint.
C15_Chain ==
    <<Op("glRotatef", <<lampJoints.baseRotation, 0, 1, 0>>),
      Op("glTranslatef", <<0, BASE_HEIGHT, 0>>),
      Op("glRotatef", <<lampJoints.lowerArmAngle, 1, 0, 0>>),
      Op("glTranslatef", <<0, LOWER_ARM_LENGTH, 0>>),
      Op("glRotatef", <<lampJoints.upperArmAngle, 1, 0, 0>>),
      Op("glTranslatef", <<0, UPPER_ARM_LENGTH, 0>>)>>

\* The wireframe primitives the frame drew.
C15_Highlights ==
    SelectSeq(frame.drawn, LAMBDA e : e.op \in {"drawWireCube", "drawWireSphere"})

\* C15: every frame draws exactly one wireframe primitive: for BASE a cube
\* under the camera and the base rotation (lifted by half the base height),
\* for LOWER_ARM, UPPER_ARM and LAMPSHADE a sphere under the camera and the
\* chain up to, and without, the selected joint's own rotation.
C15_OneHighlight ==
    AtReturn =>
        /\ Len(C15_Highlights) = 1
        /\ C15_Highlights[1].op
             = IF selectedJoint = BASE THEN "drawWireCube" ELSE "drawWireSphere"
        /\ C15_Highlights[1].matrix
             = cameraMatrix
               \o CASE selectedJoint = BASE ->
                         SubSeq(C15_Chain, 1, 1)
                         \o <<Op("glTranslatef", <<0, (BASE_HEIGHT * 5) \div 10, 0>>)>>
                    [] selectedJoint = LOWER_ARM -> SubSeq(C15_Chain, 1, 2)
                    [] selectedJoint = UPPER_ARM -> SubSeq(C15_Chain, 1, 4)
                    [] selectedJoint = LAMPSHADE -> SubSeq(C15_Chain, 1, 6)

C15_Witness ==
    /\ AtReturn
    /\ selectedJoint = LAMPSHADE
    /\ lampJoints.upperArmAngle = -57
    /\ Len(C15_Highlights) = 1
    /\ Len(C15_Highlights[1].matrix) = 7

\* C21 (as claimed): whenever drawCone has returned, no component of a normal
\* it handed to glNormal3f came out of a division by a zero square root,
\* the call with baseRadius = topRadius and height = 0 included.
C21_NoZeroDivisor ==
    (call.returned /\ call.fn = "drawCone") =>
        \A k \in 1 .. Len(emitted) :
            emitted[k].op = "glNormal3f" =>
                /\ emitted[k].a[1] # NaN
                /\ emitted[k].a[3] # NaN

\* C22: in every reachable state, for every key but ESC and every special
\* key, the callback returns with a redisplay pending, whether or not it
\* changed a joint field, the selection or the spotlight flag; and no step
\* that leaves a redisplay pending (a callback's step) touches the GL state
\* or the frame.
C22_EventsRequestRedraw ==
    /\ [](/\ \A key \in AsciiKeys \ {ESC} :
                keyboardCallback(key, State, redisplayPending).redisplayPending
          /\ \A key \in SpecialKeyCodes :
                specialKeysCallback(key, State, redisplayPending).redisplayPending)
    /\ [][(redisplayPending' /\ running') => (gl' = gl /\ frame' = frame)]_vars

\* The frame is up to date and the lower arm sits on its upper limit: UP
\* changes nothing here, neither does an unbound key.
C22_Witness ==
    /\ running
    /\ ~redisplayPending
    /\ selectedJoint = LOWER_ARM
    /\ lampJoints.lowerArmAngle = 90
    /\ specialKeys(GLUT_KEY_UP, State) = State
    /\ keyboard("x", State) = State

ToggleKeys == {"f", "F"}

\* C23: in every reachable state no arrow key and no reset key changes
\* selectedJoint or spotlightEnabled (reset leaves the selection and the
\* spotlight as they are, whatever they are), and F (or f) inverts
\* spotlightEnabled and leaves the five joint fields and selectedJoint as
\* they were.
C23_Independent ==
    /\ \A key \in ArrowKeys :
          /\ specialKeys(key, State).selectedJoint = selectedJoint
          /\ specialKeys(key, State).spotlightEnabled = spotlightEnabled
    /\ \A key \in ResetKeys :
          /\ keyboard(key, State).selectedJoint = selectedJoint
          /\ keyboard(key, State).spotlightEnabled = spotlightEnabled
    /\ \A key \in ToggleKeys :
          /\ keyboard(key, State).spotlightEnabled = ~spotlightEnabled
          /\ keyboard(key, State).lampJoints = lampJoints
          /\ keyboard(key, State).selectedJoint = selectedJoint

\* Nothing is at its startup value: a reset that restored the selection or
\* the spotlight, or a toggle that touched a joint, would show here.
C23_Witness ==
    /\ selectedJoint = LAMPSHADE
    /\ ~spotlightEnabled
    /\ lampJoints.lampshadeAngle = -84

\* C24: in every reachable state with an arm or the lampshade selected,
\* pressing DOWN until a press changes nothing (at most MaxSettle presses)
\* leaves the selected angle exactly on its lower limit (-10, -120, -90) and
\* every other field as it was, and pressing UP likewise leaves upperArmAngle
\* exactly on 90 and lampshadeAngle exactly on 45; one more press in the same
\* direction changes nothing.
C24_SticksAtLimits ==
    LET down == Settle(GLUT_KEY_DOWN, State, MaxSettle)
        up == Settle(GLUT_KEY_UP, State, MaxSettle)
    IN  /\ selectedJoint = LOWER_ARM =>
              /\ down.lampJoints = [lampJoints EXCEPT !.lowerArmAngle = -10]
              /\ specialKeys(GLUT_KEY_DOWN, down) = down
        /\ selectedJoint = UPPER_ARM =>
              /\ down.lampJoints = [lampJoints EXCEPT !.upperArmAngle = -120]
              /\ specialKeys(GLUT_KEY_DOWN, down) = down
              /\ up.lampJoints = [lampJoints EXCEPT !.upperArmAngle = 90]
              /\ specialKeys(GLUT_KEY_UP, up) = up
        /\ selectedJoint = LAMPSHADE =>
              /\ down.lampJoints = [lampJoints EXCEPT !.lampshadeAngle = -90]
              /\ specialKeys(GLUT_KEY_DOWN, down) = down
              /\ up.lampJoints = [lampJoints EXCEPT !.lampshadeAngle = 45]
              /\ specialKeys(GLUT_KEY_UP, up) = up

\* The lower arm is selected one degree above its lower limit, which is not
\* a whole number of steps away.
C24_Witness ==
    /\ selectedJoint = LOWER_ARM
    /\ lampJoints.lowerArmAngle = -9
    /\ specialKeys(GLUT_KEY_DOWN, State).lampJoints.lowerArmAngle = -10

\* The clamped angle UP and DOWN move under a selection, with its upper limit.
C25_Angle(sel) ==
    CASE sel = 1 -> [field |-> "lowerArmAngle", upper |-> 90]
      [] sel = 2 -> [field |-> "upperArmAngle", upper |-> 90]
      [] sel = 3 -> [field |-> "lampshadeAngle", upper |-> 45]

\* C25: in every reachable state, RIGHT then LEFT with Base or Lampshade
\* selected gives the state back; UP then DOWN with an arm or the lampshade
\* selected gives the state back exactly when the selected angle a has
\* a + 3 <= its upper limit, and otherwise leaves that angle at the upper
\* limit minus 3 and every other field as it was.
C25_IncreaseThenDecrease ==
    /\ selectedJoint \in {0, 3} =>
          specialKeys(GLUT_KEY_LEFT, specialKeys(GLUT_KEY_RIGHT, State)) = State
    /\ selectedJoint \in {1, 2, 3} =>
          LET c == C25_Angle(selectedJoint)
              a == lampJoints[c.field]
              t == specialKeys(GLUT_KEY_DOWN, specialKeys(GLUT_KEY_UP, State))
          IN  /\ (t = State) <=> (a + 3 <= c.upper)
              /\ a + 3 > c.upper =>
                    t = [State EXCEPT !.lampJoints[c.field] = c.upper - 3]

\* The lower arm is selected one degree below its upper limit: UP is cut to
\* 90 and DOWN then gives 87, not 89.
C25_Witness ==
    /\ selectedJoint = LOWER_ARM
    /\ lampJoints.lowerArmAngle = 89
    /\ specialKeys(GLUT_KEY_DOWN, specialKeys(GLUT_KEY_UP, State)).lampJoints.lowerArmAngle = 87

\* Command k of the frame being rendered belongs to setupLighting().
C26_InSetupLighting(k) ==
    /\ k \in 1 .. Len(display(State))
    /\ display(State)[k].line \in 115 .. 190

\* C26: between frames and when display() has issued its last command the
\* modelview and the projection stack are both one deep, as on entry, and
\* the matrix mode is GL_MODELVIEW; no glPopMatrix of a frame finds its
\* stack without a pushed matrix; and on entry to setupLighting() and on
\* return from it the modelview stack holds the camera matrix and nothing
\* else.
C26_StackDiscipline ==
    /\ (frame.pc = 0 \/ AtReturn) =>
          /\ Len(gl.modelview) = 1
          /\ Len(gl.projection) = 1
          /\ gl.matrixMode = "GL_MODELVIEW"
    /\ (frame.pc \in 1 .. Len(display(State))
          /\ display(State)[frame.pc].op = "glPopMatrix") =>
          Len(CurrentStack(gl)) > 1
    /\ (frame.pc >= 1
          /\ C26_InSetupLighting(frame.pc) # C26_InSetupLighting(frame.pc - 1)) =>
          /\ gl.modelview = <<cameraMatrix>>
          /\ gl.matrixMode = "GL_MODELVIEW"

\* A frame with the most pushes: the spotlight is on (setupLighting() and the
\* glow disk) and the base is selected (the cube has a push of its own).
C26_Witness ==
    /\ AtReturn
    /\ spotlightEnabled
    /\ selectedJoint = BASE
    /\ Len(Drawn("drawWireCube")) = 1
    /\ Len(gl.modelview) = 1
    /\ gl.projection = << <<>> >>

\* A selection highlight or the glow disk (the disk of half the shade's
\* radius; the caps of the base and of the shade have other radii).
C27_Overlay(e) ==
    \/ e.op \in {"drawWireCube", "drawWireSphere"}
    \/ e.op = "drawDisk" /\ e.a[2] = (LAMPSHADE_RADIUS * 5) \div 10

\* What the frame has handed to the pipeline so far.
C27_Geometry == SelectSeq(frame.drawn, LAMBDA e : e.op \in DrawCalls)

\* C27: whatever a frame has drawn so far, every highlight and the glow disk
\* were drawn with GL_LIGHTING disabled and everything else (table, base and
\* its cap, joint spheres, arms, shade cone and its cap) with GL_LIGHTING
\* enabled; a finished frame has drawn those ten lit parts, the highlight,
\* and the glow disk if the spotlight is on, and GL_LIGHTING is enabled when
\* display() returns.
C27_LightingDiscipline ==
    /\ \A k \in 1 .. Len(C27_Geometry) :
          C27_Geometry[k].lighting <=> ~C27_Overlay(C27_Geometry[k])
    /\ AtReturn =>
          /\ gl.lighting
          /\ Len(SelectSeq(C27_Geometry, LAMBDA e : e.lighting)) = 10
          /\ Len(SelectSeq(C27_Geometry, LAMBDA e : ~e.lighting))
               = IF spotlightEnabled THEN 2 ELSE 1

\* A finished frame with both overlays: the upper arm's highlight, drawn
\* between lit parts, and the glow disk.
C27_Witness ==
    /\ AtReturn
    /\ spotlightEnabled
    /\ selectedJoint = UPPER_ARM
    /\ Len(C27_Geometry) = 12
    /\ C27_Geometry[6].op = "drawWireSphere"
    /\ ~C27_Geometry[6].lighting
    /\ C27_Geometry[7].lighting

\* The commands a recorded call issues.
C28_Issued(e) ==
    CASE e.op = "drawCylinder" -> drawCylinder(e.a[1], e.a[2], e.a[3])
      [] e.op = "drawDisk" -> drawDisk(e.a[1], e.a[2], e.a[3])
      [] e.op = "drawCone" -> drawCone(e.a[1], e.a[2], e.a[3], e.a[4])
      [] e.op = "drawSphere" -> drawSphere(e.a[1], e.a[2], e.a[3])
      [] e.op = "drawWireSphere" -> drawWireSphere(e.a[1], e.a[2], e.a[3])
      [] OTHER -> <<>>

\* No angle of a vertex, and no component of a cone normal, is the result of
\* a division by zero.
C28_NoNaN(e) ==
    LET cs == C28_Issued(e)
    IN  \A k \in 1 .. Len(cs) :
            /\ cs[k].op = "glVertex3f" => cs[k].a[2] # NaN
            /\ (cs[k].op = "glVertex3f" /\ e.op \in {"drawSphere", "drawWireSphere"}) =>
                  cs[k].a[3] # NaN
            /\ (cs[k].op = "glNormal3f" /\ e.op = "drawCone") =>
                  (cs[k].a[1] # NaN /\ cs[k].a[3] # NaN)

\* C28: whatever a frame has drawn so far, every drawCylinder, drawCone and
\* drawDisk call had slices >= 1, every drawSphere and drawWireSphere call
\* slices >= 1 and stacks >= 1, every drawCone call baseRadius # topRadius
\* and height > 0; a finished frame has made exactly one drawCone call, and
\* none of its calls has divided by zero.
C28_NoDegenerateCall ==
    /\ \A k \in 1 .. Len(frame.drawn) :
          LET e == frame.drawn[k]
          IN  /\ e.op \in {"drawCylinder", "drawDisk"} => e.a[3] >= 1
              /\ e.op \in {"drawSphere", "drawWireSphere"} =>
                    (e.a[2] >= 1 /\ e.a[3] >= 1)
              /\ e.op = "drawCone" =>
                    (e.a[4] >= 1 /\ e.a[1] # e.a[2] /\ e.a[3] > 0)
    /\ AtReturn =>
          /\ Len(Drawn("drawCone")) = 1
          /\ \A k \in 1 .. Len(frame.drawn) : C28_NoNaN(frame.drawn[k])

\* A finished frame that has made every kind of call: spheres, a wireframe
\* sphere, cylinders, the cone and the three disks.
C28_Witness ==
    /\ AtReturn
    /\ spotlightEnabled
    /\ selectedJoint = LOWER_ARM
    /\ Len(Drawn("drawSphere")) = 3
    /\ Len(Drawn("drawWireSphere")) = 1
    /\ Len(Drawn("drawCylinder")) = 3
    /\ Len(Drawn("drawDisk")) = 3
    /\ Drawn("drawCone")[1].a = <<320, 800, 1200, 32>>
====
